---- MODULE Spec2Model ----
(***************************************************************************)
(* Model of upload_ami.py: the idempotent pipeline that uploads a disk     *)
(* image to S3, imports it as a snapshot, registers an AMI from it and     *)
(* copies the AMI to the other regions.  The provider (S3, EC2) is the     *)
(* remote state; one run of upload_ami is a walk of pc through the calls   *)
(* the code makes, in the order the code makes them.  Every provider call  *)
(* may raise.                                                              *)
(***************************************************************************)
EXTENDS Integers, Sequences, FiniteSets, TLC

\* ---------------------------------------------------------------- bounds
\* Number of runs of upload_ami in one behaviour (a run and its reruns).
MaxRuns == 2

\* ------------------------------------------------------------ the inputs
\* ec2.meta.region_name of the default client (upload_ami, line 231).
SourceRegion == "eu-west-1"

\* What ec2.describe_regions() may answer in a run: the region list is
\* fetched fresh by every run (line 250).
RegionLists == {<<"eu-west-1", "us-east-1">>, <<"us-east-1", "eu-west-1", "ap-south-1">>}

AllRegions == {"eu-west-1", "us-east-1", "ap-south-1"}

\* Image descriptors (ImageInfo, lines 19-24).  file stands for the content
\* of the local file; format "" is an absent "format" field.
Descriptors ==
  { [file |-> "img-a", label |-> "nixos", system |-> "x86_64-linux", boot_mode |-> "uefi", format |-> "VHD"],
    [file |-> "img-a", label |-> "nixos", system |-> "aarch64-linux", boot_mode |-> "uefi", format |-> ""],
    [file |-> "img-a", label |-> "nixos-x86_64", system |-> "linux", boot_mode |-> "uefi", format |-> "raw"] }

\* The command lines of main() (lines 274-277), without the descriptor:
\* --prefix, --run-id, --copy-to-regions and --public.
CommandLines ==
  { [prefix |-> "", run_id |-> "42", copy_to_regions |-> FALSE, public |-> FALSE],
    [prefix |-> "ci-", run_id |-> "", copy_to_regions |-> FALSE, public |-> TRUE],
    [prefix |-> "", run_id |-> "42", copy_to_regions |-> TRUE, public |-> FALSE],
    [prefix |-> "ci-", run_id |-> "", copy_to_regions |-> TRUE, public |-> TRUE] }

\* The one bucket of a behaviour (--s3-bucket).
Bucket == "b"

NoId == <<"none", 0>>

VARIABLES
  cli,           \* the command line of the behaviour's runs: all but the descriptor
  objects,       \* S3: set of [bucket, key, content]
  import_tasks,  \* EC2: set of [id, token, key, format, status, snapshot]
  images,        \* EC2: set of [region, id, name, state, public, token, arch, snapshot]
  run,           \* number of runs of upload_ami started so far
  pc,            \* position of the current run in upload_ami
  args,          \* arguments of the current run
  image_name,    \* upload_ami.image_name (= s3_key)
  image_format,  \* upload_ami.image_format
  probe,         \* answer of the last head_object of this run
  task_id,       \* import_snapshot.snapshot_import_task["ImportTaskId"]
  snapshot_id,   \* upload_ami.snapshot_id
  image_id,      \* upload_ami.image_id
  regions,       \* the filtered region list handed to copy_image_to_regions
  fut,           \* executor: state of the future of each target region
  copy_ids,      \* copy_image["ImageId"] of each region task
  pairs,         \* the (region, imageId) pairs executor.map has yielded so far
  image_ids,     \* the map upload_ami returns
  calls,         \* provider calls issued by the current run, per kind
  start,         \* what the provider held when the current run was called
  stages,        \* stage calls and returns of the current run, in order
  prev           \* summary of the previous run

remote == <<objects, import_tasks, images>>

locals == <<image_name, image_format, probe, task_id, snapshot_id, image_id, regions, image_ids>>

pool == <<fut, copy_ids, pairs>>

vars == <<cli, objects, import_tasks, images, run, pc, args, image_name, image_format, probe, task_id, snapshot_id, image_id, regions, fut, copy_ids, pairs, image_ids, calls, start, stages, prev>>

\* ------------------------------------------------------- pure functions
\* The name with the run id appended without its dot.
ImageNameNoDot(info, prefix, run_id) == prefix \o info.label \o "-" \o info.system \o run_id

\* upload_ami, line 237: prefix + label + "-" + system + ("." + run_id if run_id else "")
ImageName(info, prefix, run_id) ==
  prefix \o info.label \o "-" \o info.system \o (IF run_id # "" THEN "." \o run_id ELSE "")

\* upload_ami, line 241: image_info.get("format") or "VHD"
ImageFormat(info) == IF info.format # "" THEN info.format ELSE "VHD"

\* import_snapshot, lines 53-55: sha256(s3_key) updated with "x"; the hash is
\* modelled as an injective tag of the hashed bytes.
ClientToken(s3_key) == <<"sha256", s3_key \o "x">>

\* register_image_if_not_exists, lines 104-109; "" stands for the raise.
Architecture(system) ==
  CASE system = "x86_64-linux" -> "x86_64"
    [] system = "aarch64-linux" -> "arm64"
    [] OTHER -> ""

\* ----------------------------------------------------------- the provider
\* s3.head_object: does the object exist.
HeadObject(bucket, key) == \E o \in objects : o.bucket = bucket /\ o.key = key

\* s3.upload_file: put, replacing whatever the key held.
PutObject(bucket, key, content) ==
  {o \in objects : ~(o.bucket = bucket /\ o.key = key)}
    \cup {[bucket |-> bucket, key |-> key, content |-> content]}

\* ec2.describe_images(Owners=self, Filters name=...) in a region.
ImagesNamed(region, name) == {i \in images : i.region = region /\ i.name = name}

ImagesIn(region) == {i \in images : i.region = region}

\* A fresh image id of a region.
NewImageId(region) == <<region, Cardinality(ImagesIn(region)) + 1>>

NewTaskId == Cardinality(import_tasks) + 1

SetImage(id, f, v) == {IF i.id = id THEN [i EXCEPT ![f] = v] ELSE i : i \in images}

\* The image id a run that meets no failure returns for each region, from the
\* provider's present state: the image that has the name, or else the next
\* id the region hands out.
IdsOfCleanRun(name) ==
  [r \in AllRegions |->
     IF ImagesNamed(r, name) # {} THEN (CHOOSE i \in ImagesNamed(r, name) : TRUE).id
     ELSE NewImageId(r)]

\* ------------------------------------------------------------- run state
NoCalls ==
  [head_object |-> 0, upload_file |-> 0, import_snapshot |-> 0, describe_images |-> 0,
   register_image |-> 0, describe_regions |-> 0, copy_image |-> {}, modify_image |-> {}]

NoArgs ==
  [info |-> [file |-> "", label |-> "", system |-> "", boot_mode |-> "", format |-> ""],
   prefix |-> "", run_id |-> "", copy_to_regions |-> FALSE, public |-> FALSE]

NoFut == [r \in AllRegions |-> "none"]

NoCopies == [r \in AllRegions |-> NoId]

NoMap == [r \in {} |-> NoId]

NoStart == [held |-> FALSE, ids |-> NoCopies]

NoPrev ==
  [args |-> NoArgs, outcome |-> "none", image_ids |-> NoMap, uploads |-> 0,
   uploaded |-> FALSE, registered |-> NoId, start |-> NoStart]

\* The stage has returned to upload_ami in the current run.
Returned(stage) == \E k \in DOMAIN stages : stages[k] = stage \o ".ret"

Init ==
  /\ cli \in CommandLines
  /\ objects = {}
  /\ import_tasks = {}
  /\ images = {}
  /\ run = 0
  /\ pc = "idle"
  /\ args = NoArgs
  /\ image_name = ""
  /\ image_format = ""
  /\ probe = "none"
  /\ task_id = 0
  /\ snapshot_id = 0
  /\ image_id = NoId
  /\ regions = <<>>
  /\ fut = NoFut
  /\ copy_ids = NoCopies
  /\ pairs = <<>>
  /\ image_ids = NoMap
  /\ calls = NoCalls
  /\ start = NoStart
  /\ stages = <<>>
  /\ prev = NoPrev

\* The exception leaves upload_ami: the run is over, nothing is undone.
Raise == pc' = "failed"

Issue(kind) == calls' = [calls EXCEPT ![kind] = @ + 1]

\* ------------------------------------------------------------ upload_ami
\* main() calls upload_ami (lines 231-239): the clients are made, the name is
\* derived and upload_to_s3_if_not_exists is entered.
upload_ami(a) ==
  /\ pc \in {"idle", "done", "failed"}
  /\ run < MaxRuns
  /\ run' = run + 1
  /\ prev' = [args |-> args, outcome |-> pc, image_ids |-> image_ids,
              uploads |-> calls.upload_file, uploaded |-> Returned("upload"),
              registered |-> IF Returned("register") THEN image_id ELSE NoId,
              start |-> start]
  /\ start' = [held |-> HeadObject(Bucket, ImageName(a.info, a.prefix, a.run_id)),
               ids |-> IdsOfCleanRun(ImageName(a.info, a.prefix, a.run_id))]
  /\ args' = a
  /\ image_name' = ImageName(a.info, a.prefix, a.run_id)
  /\ image_format' = ""
  /\ probe' = "none"
  /\ task_id' = 0
  /\ snapshot_id' = 0
  /\ image_id' = NoId
  /\ regions' = <<>>
  /\ fut' = NoFut
  /\ copy_ids' = NoCopies
  /\ pairs' = <<>>
  /\ image_ids' = NoMap
  /\ calls' = NoCalls
  /\ stages' = <<"upload">>
  /\ pc' = "head_object"
  /\ UNCHANGED <<cli, remote>>

\* ------------------------------------------ upload_to_s3_if_not_exists
\* Lines 33-36: which answers of head_object reach the except branch.  A
\* missing object is a ClientError (404), and so are 403 and throttling; a
\* connection error is no ClientError and leaves the function.
IsClientError(answer) == answer \in {"not_found", "client_error"}

\* The orchestrator with the import left out: registration follows the upload.
upload_returns_to_register ==
  /\ stages' = stages \o <<"upload.ret", "register">>
  /\ image_format' = ImageFormat(args.info)
  /\ pc' = "describe_images"

\* The function returns None; upload_ami goes on to lines 241-242.
upload_returns ==
  /\ stages' = stages \o <<"upload.ret", "import">>
  /\ image_format' = ImageFormat(args.info)
  /\ pc' = "import_snapshot"

\* Lines 33-36: s3.head_object.
head_object ==
  /\ pc = "head_object"
  /\ Issue("head_object")
  /\ \E answer \in {"found", "not_found", "client_error", "error"} :
       /\ answer = "found" => HeadObject(Bucket, image_name)
       /\ answer = "not_found" => ~HeadObject(Bucket, image_name)
       /\ probe' = answer
       /\ \/ answer = "found" /\ upload_returns
          \/ IsClientError(answer) /\ pc' = "upload_file" /\ UNCHANGED <<stages, image_format>>
          \/ answer = "error" /\ Raise /\ UNCHANGED <<stages, image_format>>
  /\ UNCHANGED <<cli, remote, run, args, image_name, task_id, snapshot_id, image_id, regions, image_ids, pool, start, prev>>

\* Line 38: s3.upload_file(file, bucket, key).
upload_file ==
  /\ pc = "upload_file"
  /\ Issue("upload_file")
  /\ \/ objects' = PutObject(Bucket, image_name, args.info.file) /\ pc' = "object_exists"
     \/ Raise /\ UNCHANGED objects
  /\ UNCHANGED <<cli, import_tasks, images, run, args, locals, pool, start, stages, prev>>

\* Line 39: the object_exists waiter.
object_exists ==
  /\ pc = "object_exists"
  /\ \/ HeadObject(Bucket, image_name) /\ upload_returns
     \/ Raise /\ UNCHANGED <<stages, image_format>>
  /\ UNCHANGED <<cli, remote, run, args, image_name, probe, task_id, snapshot_id, image_id, regions, image_ids, pool, calls, start, prev>>

\* ------------------------------------------------------ import_snapshot
\* The provider's import_snapshot: a submission whose client token it has
\* seen answers the task of that token; otherwise it makes a task.
TaskOfToken(token) == {t \in import_tasks : t.token = token}

\* Lines 59-67: ec2.import_snapshot(..., ClientToken=client_token).
import_snapshot ==
  /\ pc = "import_snapshot"
  /\ Issue("import_snapshot")
  /\ \/ LET token == ClientToken(image_name)
            old == TaskOfToken(token)
        IN  /\ IF old # {}
               THEN /\ task_id' = (CHOOSE t \in old : TRUE).id
                    /\ UNCHANGED import_tasks
               ELSE /\ task_id' = NewTaskId
                    /\ import_tasks' = import_tasks \cup
                         {[id |-> NewTaskId, token |-> token, key |-> image_name,
                           format |-> image_format, status |-> "active", snapshot |-> 0]}
            /\ pc' = "snapshot_imported"
     \/ Raise /\ UNCHANGED <<import_tasks, task_id>>
  /\ UNCHANGED <<cli, objects, images, run, args, image_name, image_format, probe, snapshot_id, image_id, regions, image_ids, pool, start, stages, prev>>

\* Lines 68-70: the snapshot_imported waiter; the task completes meanwhile,
\* its snapshot made from the object the key holds.
snapshot_imported ==
  /\ pc = "snapshot_imported"
  /\ \/ /\ import_tasks' = {IF t.id = task_id /\ t.status = "active"
                              THEN [t EXCEPT !.status = "completed", !.snapshot = t.id]
                              ELSE t : t \in import_tasks}
        /\ pc' = "describe_import"
     \/ Raise /\ UNCHANGED import_tasks
  /\ UNCHANGED <<cli, objects, images, run, args, locals, pool, calls, start, stages, prev>>

\* Lines 72-79: describe_import_snapshot_tasks by task id, the asserts and
\* the return; upload_ami goes on to line 244.  Line 75 asserts that the list
\* is not empty and line 76 takes its first element, whichever task the
\* provider lists first; lines 77-78 assert that it holds a snapshot id.
describe_import ==
  /\ pc = "describe_import"
  /\ \/ LET found == {t \in import_tasks : t.id = task_id}
        IN  /\ found # {}
            /\ \E t \in found :
                  /\ t.snapshot # 0
                  /\ snapshot_id' = t.snapshot
            /\ stages' = stages \o <<"import.ret", "register">>
            /\ pc' = "describe_images"
     \/ Raise /\ UNCHANGED <<snapshot_id, stages>>
  /\ UNCHANGED <<cli, remote, run, args, image_name, image_format, probe, task_id, image_id, regions, image_ids, pool, calls, start, prev>>

\* ----------------------------------------- register_image_if_not_exists
\* Lines 140-148 end the function; upload_ami goes on to lines 248-251.
register_returns ==
  /\ stages' = stages \o <<"register.ret">>
  /\ pc' = "describe_regions"

\* A lookup whose answer is ignored: every run registers.
ImageExistsNever(found) == FALSE

\* A lookup that takes one match for none.
ImageExistsOffByOne(found) == Cardinality(found) > 1

\* Line 97: the lookup by name found something.
ImageExists(found) == Cardinality(found) # 0

\* A lookup that takes the first match without counting the matches.
describe_images_first ==
  /\ pc = "describe_images"
  /\ Issue("describe_images")
  /\ \/ LET found == ImagesNamed(SourceRegion, image_name)
        IN  IF ImageExists(found)
            THEN /\ \E i \in found : image_id' = i.id
                 /\ pc' = "image_available"
            ELSE /\ UNCHANGED image_id
                 /\ IF Architecture(args.info.system) = ""
                    THEN Raise
                    ELSE pc' = "register_image"
     \/ Raise /\ UNCHANGED image_id
  /\ UNCHANGED <<cli, remote, run, args, image_name, image_format, probe, task_id, snapshot_id, regions, image_ids, pool, start, stages, prev>>

\* Lines 94-109: describe_images by name; an image that exists is taken
\* (after the asserts), otherwise the architecture is worked out, and an
\* unknown system raises.
describe_images ==
  /\ pc = "describe_images"
  /\ Issue("describe_images")
  /\ \/ LET found == ImagesNamed(SourceRegion, image_name)
        IN  IF ImageExists(found)
            THEN IF Cardinality(found) = 1
                 THEN /\ image_id' = (CHOOSE i \in found : TRUE).id
                      /\ pc' = "image_available"
                 ELSE Raise /\ UNCHANGED image_id
            ELSE /\ UNCHANGED image_id
                 /\ IF Architecture(args.info.system) = ""
                    THEN Raise
                    ELSE pc' = "register_image"
     \/ Raise /\ UNCHANGED image_id
  /\ UNCHANGED <<cli, remote, run, args, image_name, image_format, probe, task_id, snapshot_id, regions, image_ids, pool, start, stages, prev>>

\* Lines 119-138: ec2.register_image.
register_image ==
  /\ pc = "register_image"
  /\ Issue("register_image")
  /\ \/ /\ images' = images \cup
             {[region |-> SourceRegion, id |-> NewImageId(SourceRegion), name |-> image_name,
               state |-> "pending", public |-> FALSE, token |-> NoId,
               arch |-> Architecture(args.info.system), snapshot |-> snapshot_id]}
        /\ image_id' = NewImageId(SourceRegion)
        /\ pc' = "image_available"
     \/ Raise /\ UNCHANGED <<images, image_id>>
  /\ UNCHANGED <<cli, objects, import_tasks, run, args, image_name, image_format, probe, task_id, snapshot_id, regions, image_ids, pool, start, stages, prev>>


\* A waiter after which the launch permission is only added to an image
\* that this call registered.
image_available_new_only ==
  /\ pc = "image_available"
  /\ \/ /\ images' = SetImage(image_id, "state", "available")
        /\ IF args.public /\ calls.register_image = 1
           THEN pc' = "modify_image" /\ UNCHANGED stages
           ELSE register_returns
     \/ Raise /\ UNCHANGED <<images, stages>>
  /\ UNCHANGED <<cli, objects, import_tasks, run, args, locals, pool, calls, start, prev>>

\* Line 140: the image_available waiter; lines 141 and 148.
image_available ==
  /\ pc = "image_available"
  /\ \/ /\ images' = SetImage(image_id, "state", "available")
        /\ IF args.public
           THEN pc' = "modify_image" /\ UNCHANGED stages
           ELSE register_returns
     \/ Raise /\ UNCHANGED <<images, stages>>
  /\ UNCHANGED <<cli, objects, import_tasks, run, args, locals, pool, calls, start, prev>>

\* Lines 141-148: the launch permission is added for the group "all".
modify_image ==
  /\ pc = "modify_image"
  /\ calls' = [calls EXCEPT !.modify_image = @ \cup {image_id}]
  /\ \/ images' = SetImage(image_id, "public", TRUE) /\ register_returns
     \/ Raise /\ UNCHANGED <<images, stages>>
  /\ UNCHANGED <<cli, objects, import_tasks, run, args, locals, pool, start, prev>>

\* ------------------------------------------- upload_ami, lines 248-263
\* The region list taken as the provider gave it.
OtherRegionsUnfiltered(rs) == rs

\* Line 249: the regions other than the client's own.
OtherRegions(rs) == SelectSeq(rs, LAMBDA r : r # SourceRegion)

\* Lines 248-261: describe_regions, the map seeded with the source region;
\* with copy_to_regions the executor is entered and executor.map submits one
\* future per target region (line 211), without it the map is returned.
describe_regions ==
  /\ pc = "describe_regions"
  /\ Issue("describe_regions")
  /\ \/ \E rs \in RegionLists :
          /\ regions' = OtherRegions(rs)
          /\ image_ids' = [r \in {SourceRegion} |-> image_id]
          /\ IF args.copy_to_regions
             THEN /\ fut' = [r \in AllRegions |->
                              IF \E k \in DOMAIN regions' : regions'[k] = r THEN "pending" ELSE "none"]
                  /\ stages' = stages \o <<"replicate">>
                  /\ pc' = "map"
             ELSE /\ pc' = "done"
                  /\ UNCHANGED <<fut, stages>>
     \/ Raise /\ UNCHANGED <<regions, image_ids, fut, stages>>
  /\ UNCHANGED <<cli, remote, run, args, image_name, image_format, probe, task_id, snapshot_id, image_id, copy_ids, pairs, start, prev>>

\* ------------------------------------------------ copy_image_to_regions
\* Line 203: ThreadPoolExecutor(max_workers=32).
max_workers == 32

TargetSet == {regions[k] : k \in DOMAIN regions}

\* A region task is in flight: a worker runs copy_image for it.
Running(r) == fut[r] \in {"copy_image", "image_available", "modify_image"}

\* The work queue is first in, first out: the next future a worker takes.
FirstPending(r) ==
  \E k \in DOMAIN regions :
    /\ regions[k] = r
    /\ fut[r] = "pending"
    /\ \A j \in 1..(k - 1) : fut[regions[j]] # "pending"

\* An executor that starts a thread for every future on the queue.
task_starts_unbounded(r) ==
  /\ pc \in {"map", "raise"}
  /\ FirstPending(r)
  /\ fut' = [fut EXCEPT ![r] = "copy_image"]
  /\ UNCHANGED <<cli, remote, run, pc, args, locals, copy_ids, pairs, calls, start, stages, prev>>

\* An executor whose workers each run one future and then end.
task_starts_once(r) ==
  /\ pc \in {"map", "raise"}
  /\ FirstPending(r)
  /\ Cardinality({q \in DOMAIN fut : fut[q] \notin {"none", "pending"}}) < max_workers
  /\ fut' = [fut EXCEPT ![r] = "copy_image"]
  /\ UNCHANGED <<cli, remote, run, pc, args, locals, copy_ids, pairs, calls, start, stages, prev>>

\* A worker takes the next future off the queue (lines 205-209, line 180).
task_starts(r) ==
  /\ pc \in {"map", "raise"}
  /\ FirstPending(r)
  /\ Cardinality({q \in DOMAIN fut : Running(q)}) < max_workers
  /\ fut' = [fut EXCEPT ![r] = "copy_image"]
  /\ UNCHANGED <<cli, remote, run, pc, args, locals, copy_ids, pairs, calls, start, stages, prev>>

\* The provider's copy_image in a region: a request whose client token the
\* region has seen answers the copy of that token.
CopyOfToken(r, token) == {i \in images : i.region = r /\ i.token = token}

\* Lines 184-189: ec2r.copy_image(..., Name=image_name, ClientToken=image_id).
\* A worker steps for as long as its thread runs: inside the executor, and
\* after it when the with block was left without the join.
copy_image(r) ==
  /\ pc \in {"map", "raise", "failed"}
  /\ fut[r] = "copy_image"
  /\ calls' = [calls EXCEPT !.copy_image = @ \cup {r}]
  /\ \/ LET old == CopyOfToken(r, image_id)
        IN  /\ IF old # {}
               THEN /\ copy_ids' = [copy_ids EXCEPT ![r] = (CHOOSE i \in old : TRUE).id]
                    /\ UNCHANGED images
               ELSE /\ copy_ids' = [copy_ids EXCEPT ![r] = NewImageId(r)]
                    /\ images' = images \cup
                         {[region |-> r, id |-> NewImageId(r), name |-> image_name,
                           state |-> "pending", public |-> FALSE, token |-> image_id,
                           arch |-> (CHOOSE i \in images : i.id = image_id).arch,
                           snapshot |-> 0]}
            /\ fut' = [fut EXCEPT ![r] = "image_available"]
     \/ fut' = [fut EXCEPT ![r] = "raised"] /\ UNCHANGED <<images, copy_ids>>
  /\ UNCHANGED <<cli, objects, import_tasks, run, pc, args, locals, pairs, start, stages, prev>>

\* A waiter whose failure is dropped: the task goes on with the copy as it
\* is.
copy_available_unchecked(r) ==
  /\ pc \in {"map", "raise", "failed"}
  /\ fut[r] = "image_available"
  /\ \/ images' = SetImage(copy_ids[r], "state", "available")
     \/ UNCHANGED images
  /\ fut' = [fut EXCEPT ![r] = IF args.public THEN "modify_image" ELSE "finished"]
  /\ UNCHANGED <<cli, objects, import_tasks, run, pc, args, locals, copy_ids, pairs, calls, start, stages, prev>>

\* Line 190: the image_available waiter of the region; line 194.
copy_available(r) ==
  /\ pc \in {"map", "raise", "failed"}
  /\ fut[r] = "image_available"
  /\ \/ /\ images' = SetImage(copy_ids[r], "state", "available")
        /\ fut' = [fut EXCEPT ![r] = IF args.public THEN "modify_image" ELSE "finished"]
     \/ fut' = [fut EXCEPT ![r] = "raised"] /\ UNCHANGED images
  /\ UNCHANGED <<cli, objects, import_tasks, run, pc, args, locals, copy_ids, pairs, calls, start, stages, prev>>

\* Lines 194-201: the launch permission of the copy, and the pair returned.
copy_modify(r) ==
  /\ pc \in {"map", "raise", "failed"}
  /\ fut[r] = "modify_image"
  /\ calls' = [calls EXCEPT !.modify_image = @ \cup {copy_ids[r]}]
  /\ \/ /\ images' = SetImage(copy_ids[r], "public", TRUE)
        /\ fut' = [fut EXCEPT ![r] = "finished"]
     \/ fut' = [fut EXCEPT ![r] = "raised"] /\ UNCHANGED images
  /\ UNCHANGED <<cli, objects, import_tasks, run, pc, args, locals, copy_ids, pairs, start, stages, prev>>

\* Results gathered as the tasks complete and paired with the regions in
\* the order of submission.
map_yields_as_completed ==
  /\ pc = "map"
  /\ Len(pairs) < Len(regions)
  /\ \E r \in TargetSet :
        /\ fut[r] = "finished"
        /\ \A k \in DOMAIN pairs : pairs[k][2] # copy_ids[r]
        /\ pairs' = Append(pairs, <<regions[Len(pairs) + 1], copy_ids[r]>>)
  /\ UNCHANGED <<cli, remote, run, pc, args, locals, fut, copy_ids, calls, start, stages, prev>>

\* Line 211: executor.map yields the results in the order of submission;
\* dict() takes the next pair once that region's future holds a result.
map_yields ==
  /\ pc = "map"
  /\ Len(pairs) < Len(regions)
  /\ fut[regions[Len(pairs) + 1]] = "finished"
  /\ pairs' = Append(pairs, <<regions[Len(pairs) + 1], copy_ids[regions[Len(pairs) + 1]]>>)
  /\ UNCHANGED <<cli, remote, run, pc, args, locals, fut, copy_ids, calls, start, stages, prev>>

\* Line 211: the next future holds an exception: result() raises it inside
\* dict(), and the iterator's finally cancels the futures not yet started.
map_raises ==
  /\ pc = "map"
  /\ Len(pairs) < Len(regions)
  /\ fut[regions[Len(pairs) + 1]] = "raised"
  /\ fut' = [r \in DOMAIN fut |-> IF fut[r] = "pending" THEN "cancelled" ELSE fut[r]]
  /\ pc' = "raise"
  /\ UNCHANGED <<cli, remote, run, args, locals, copy_ids, pairs, calls, start, stages, prev>>

\* A dict built from the first pair alone.
DictOfFirst(ps) == [r \in {ps[k][1] : k \in DOMAIN ps \cap {1}} |-> ps[1][2]]

\* dict(pairs): the last pair of a key wins.
DictOf(ps) ==
  [r \in {ps[k][1] : k \in DOMAIN ps} |->
     ps[CHOOSE k \in DOMAIN ps : ps[k][1] = r /\ \A j \in DOMAIN ps : ps[j][1] = r => j <= k][2]]

\* dict.update and item assignment.
Update(m, n) == [r \in DOMAIN m \cup DOMAIN n |-> IF r \in DOMAIN n THEN n[r] ELSE m[r]]

\* Lines 211-214 and 257-263: the map is built from the pairs.
ResultMap(ps) == Update(image_ids, Update(DictOf(ps), [r \in {SourceRegion} |-> image_id]))

\* The results are gathered with the exceptions of the futures dropped: the
\* map is returned once no worker runs, whatever the futures hold.
copy_returns_partial ==
  /\ pc = "map"
  /\ \A r \in DOMAIN fut : fut[r] \in {"none", "finished", "raised"}
  /\ image_ids' = ResultMap(pairs)
  /\ stages' = stages \o <<"replicate.ret">>
  /\ pc' = "done"
  /\ UNCHANGED <<cli, remote, run, args, image_name, image_format, probe, task_id, snapshot_id, image_id, regions, pool, calls, start, prev>>

\* Lines 203 and 211-214: dict() is complete, the with block is left
\* (shutdown waits for the workers), the source region is set and the map
\* returned; upload_ami updates its own map with it and returns (257-263).
copy_returns ==
  /\ pc = "map"
  /\ Len(pairs) = Len(regions)
  /\ \A r \in DOMAIN fut : ~Running(r)
  /\ image_ids' = ResultMap(pairs)
  /\ stages' = stages \o <<"replicate.ret">>
  /\ pc' = "done"
  /\ UNCHANGED <<cli, remote, run, args, image_name, image_format, probe, task_id, snapshot_id, image_id, regions, pool, calls, start, prev>>

\* Line 203: the with block is left by the exception: shutdown(wait=True)
\* joins the workers, then the exception leaves copy_image_to_regions and
\* upload_ami.
copy_raises ==
  /\ pc = "raise"
  /\ \A r \in DOMAIN fut : ~Running(r)
  /\ Raise
  /\ UNCHANGED <<cli, remote, run, args, locals, pool, calls, start, stages, prev>>

\* ---------------------------------------------------------------- runs
\* main(), lines 283-294: the descriptor is read and upload_ami called with
\* it and the command line.
Invocations ==
  {[info |-> d, prefix |-> cli.prefix, run_id |-> cli.run_id,
    copy_to_regions |-> cli.copy_to_regions, public |-> cli.public] : d \in Descriptors}

Next ==
  \/ \E a \in Invocations : upload_ami(a)
  \/ head_object
  \/ upload_file
  \/ object_exists
  \/ import_snapshot
  \/ snapshot_imported
  \/ describe_import
  \/ describe_images
  \/ register_image
  \/ image_available
  \/ modify_image
  \/ describe_regions
  \/ \E r \in AllRegions : task_starts(r)
  \/ \E r \in AllRegions : copy_image(r)
  \/ \E r \in AllRegions : copy_available(r)
  \/ \E r \in AllRegions : copy_modify(r)
  \/ map_yields
  \/ map_raises
  \/ copy_returns
  \/ copy_raises

Spec == Init /\ [][Next]_vars

\* ------------------------------------------------- more regions than workers
\* SpecWide is one run of the pipeline, with replication, in an account of
\* more target regions than the executor has workers.  The region tasks
\* share no state (each works on its own region's images and its own
\* future), so the order in which two of them step does not change what
\* either does; SpecWide steps the workers in flight oldest first, and lets
\* futures be taken off the queue and results be collected at any time.
MaxTargets == 33

\* The answer of describe_regions (line 250): the client's own region among
\* MaxTargets others.
WideRegions ==
  [k \in 1..(MaxTargets + 1) |->
     IF k = 2 THEN SourceRegion
     ELSE "zone-" \o ToString(IF k = 1 THEN 1 ELSE k - 1)]

WideSet == {WideRegions[k] : k \in DOMAIN WideRegions}

\* Lines 248-261 with that answer: one future per target region.
describe_regions_wide ==
  /\ pc = "describe_regions"
  /\ Issue("describe_regions")
  /\ \/ /\ regions' = OtherRegions(WideRegions)
        /\ image_ids' = [r \in {SourceRegion} |-> image_id]
        /\ fut' = [r \in WideSet |->
                    IF \E k \in DOMAIN regions' : regions'[k] = r THEN "pending" ELSE "none"]
        /\ copy_ids' = [r \in WideSet |-> NoId]
        /\ stages' = stages \o <<"replicate">>
        /\ pc' = "map"
     \/ Raise /\ UNCHANGED <<regions, image_ids, fut, copy_ids, stages>>
  /\ UNCHANGED <<cli, remote, run, args, image_name, image_format, probe, task_id, snapshot_id, image_id, pairs, start, prev>>

\* The worker in flight that took its future first.
InTurn(r) ==
  \E k \in DOMAIN regions :
    /\ regions[k] = r
    /\ Running(r)
    /\ \A j \in 1..(k - 1) : ~Running(regions[j])

\* The futures are taken off the queue in the order of regions and, with
\* the workers stepped oldest first, completed in that order: the head of
\* the queue and the worker in turn are found by counting.
QueueHead ==
  {regions[k] : k \in DOMAIN regions \cap
     {Cardinality({j \in DOMAIN regions : fut[regions[j]] # "pending"}) + 1}}

OldestInFlight ==
  {regions[k] : k \in DOMAIN regions \cap
     {Cardinality({j \in DOMAIN regions : fut[regions[j]] \in {"finished", "raised"}}) + 1}}

\* The provider fails no region task but, at most, the first and the last
\* of the queue.
MayRaise(r) == fut[r] = "raised" => r \in {regions[1], regions[Len(regions)]}

\* A step of a worker thread.
WorkerStep ==
  \/ \E r \in QueueHead : task_starts(r)
  \/ \E r \in OldestInFlight : InTurn(r) /\ copy_image(r) /\ MayRaise(r)'
  \/ \E r \in OldestInFlight : InTurn(r) /\ copy_available(r) /\ MayRaise(r)'

\* A step of the main thread once upload_ami has been called.
MainStep ==
  \/ head_object
  \/ upload_file
  \/ object_exists
  \/ import_snapshot
  \/ snapshot_imported
  \/ describe_import
  \/ describe_images
  \/ register_image
  \/ image_available
  \/ describe_regions_wide
  \/ map_yields
  \/ map_raises
  \/ copy_returns
  \/ copy_raises

\* The command line asks for replication and not for public images; the
\* one run is that of the x86_64 image.
InitWide == Init /\ cli.copy_to_regions /\ ~cli.public

NextWide ==
  \/ \E a \in Invocations : run = 0 /\ a.info.system = "x86_64-linux" /\ upload_ami(a)
  \/ MainStep
  \/ WorkerStep

SpecWide == InitWide /\ [][NextWide]_vars

\* The threads are scheduled by the operating system, and every provider
\* call and wait returns: a thread that can step does step.
SpecWideFair == SpecWide /\ WF_vars(MainStep) /\ WF_vars(WorkerStep)

\* --------------------------------------------------------- interrupts
\* SpecInterrupt is one run of the pipeline, with replication, that the
\* caller may interrupt (KeyboardInterrupt is raised in the main thread,
\* lines 203-211 install no handler).
\* The main thread waits in result() inside dict() (line 211): the
\* interrupt is raised there, the iterator's finally cancels the futures
\* not yet started, and the with block is left by the exception.
map_interrupted ==
  /\ pc = "map"
  /\ fut' = [r \in DOMAIN fut |-> IF fut[r] = "pending" THEN "cancelled" ELSE fut[r]]
  /\ pc' = "raise"
  /\ UNCHANGED <<cli, remote, run, args, locals, copy_ids, pairs, calls, start, stages, prev>>

\* The main thread waits in shutdown(wait=True) for the workers in flight
\* (line 203, leaving the with block): the interrupt is raised in the join
\* and leaves copy_image_to_regions and upload_ami at once.
join_interrupted ==
  /\ pc = "raise"
  /\ \E r \in DOMAIN fut : Running(r)
  /\ Raise
  /\ UNCHANGED <<cli, remote, run, args, locals, pool, calls, start, stages, prev>>

InitInterrupt == Init /\ cli.copy_to_regions

NextInterrupt ==
  \/ \E a \in Invocations : run = 0 /\ upload_ami(a)
  \/ head_object
  \/ upload_file
  \/ object_exists
  \/ import_snapshot
  \/ snapshot_imported
  \/ describe_import
  \/ describe_images
  \/ register_image
  \/ image_available
  \/ modify_image
  \/ describe_regions
  \/ \E r \in AllRegions : task_starts(r)
  \/ \E r \in AllRegions : copy_image(r)
  \/ \E r \in AllRegions : copy_available(r)
  \/ \E r \in AllRegions : copy_modify(r)
  \/ map_yields
  \/ map_raises
  \/ map_interrupted
  \/ copy_returns
  \/ copy_raises
  \/ join_interrupted

SpecInterrupt == InitInterrupt /\ [][NextInterrupt]_vars

\* ------------------------------------------------- a changed local file
\* SpecContent runs the pipeline, without replication, with descriptors
\* whose file may have changed between the runs: every descriptor also
\* comes with another content of its file.
ContentInvocations ==
  Invocations \cup {[a EXCEPT !.info.file = "img-b"] : a \in Invocations}

InitContent == Init /\ ~cli.copy_to_regions

NextContent ==
  \/ \E a \in ContentInvocations : upload_ami(a)
  \/ head_object
  \/ upload_file
  \/ object_exists
  \/ import_snapshot
  \/ snapshot_imported
  \/ describe_import
  \/ describe_images
  \/ register_image
  \/ image_available
  \/ modify_image
  \/ describe_regions

SpecContent == InitContent /\ [][NextContent]_vars

\* ------------------------------------------- the account, seen from outside
\* The lookups of lines 72-75 and 94-98 are answered from what the account
\* holds, and the account is not the program's alone.  SpecAccount runs the
\* pipeline without replication next to an account whose lists may hold
\* fewer or more entries than the program left there.
MaxSameName == 2

\* Another client of the account leaves an image of the run's name in the
\* source region before the lookup of line 94.
foreign_image ==
  /\ pc \in {"head_object", "import_snapshot", "describe_images"}
  /\ calls.describe_images = 0
  /\ Cardinality(ImagesNamed(SourceRegion, image_name)) < MaxSameName
  /\ images' = images \cup
       {[region |-> SourceRegion, id |-> NewImageId(SourceRegion), name |-> image_name,
         state |-> "available", public |-> FALSE, token |-> NoId,
         arch |-> "x86_64", snapshot |-> 0]}
  /\ UNCHANGED <<cli, objects, import_tasks, run, pc, args, locals, pool, calls, start, stages, prev>>

\* The provider lists the run's import task once more, under the same id,
\* as a task that holds no snapshot: the answer to line 72 has two entries.
task_listed_twice ==
  /\ pc = "describe_import"
  /\ \E t \in {u \in import_tasks : u.id = task_id /\ u.status = "completed"} :
        import_tasks' = import_tasks \cup {[t EXCEPT !.status = "active", !.snapshot = 0]}
  /\ import_tasks' # import_tasks
  /\ UNCHANGED <<cli, objects, images, run, pc, args, locals, pool, calls, start, stages, prev>>

\* The provider no longer keeps the run's import task (the TODO of line 60):
\* the answer to line 72 is empty.  Only the newest task is dropped, so that
\* ids are not handed out twice.
task_forgotten ==
  /\ pc = "describe_import"
  /\ task_id = Cardinality(import_tasks)
  /\ import_tasks' = {t \in import_tasks : t.id # task_id}
  /\ UNCHANGED <<cli, objects, images, run, pc, args, locals, pool, calls, start, stages, prev>>

InitAccount == Init /\ ~cli.copy_to_regions

NextAccount ==
  \/ \E a \in Invocations : upload_ami(a)
  \/ head_object
  \/ upload_file
  \/ object_exists
  \/ import_snapshot
  \/ snapshot_imported
  \/ describe_import
  \/ describe_images
  \/ register_image
  \/ image_available
  \/ modify_image
  \/ describe_regions
  \/ foreign_image
  \/ task_listed_twice
  \/ task_forgotten

SpecAccount == InitAccount /\ [][NextAccount]_vars

\* ============================================================== claims
ObjectsAt(key) == {o \in objects : o.bucket = Bucket /\ o.key = key}

\* The current run repeats, with the same arguments, the run before it.
SameCall == run >= 2 /\ prev.args = args

\* The current run is the rerun of a run that failed.
IsRerun == SameCall /\ prev.outcome = "failed"

\* C1 - Rerun safety.  When the rerun of a failed run (same descriptor, prefix
\* and run id) has ended, the provider holds at most one object at the key, at
\* most one import task of the key's client token, at most one image of the
\* name in the source region and at most one in each other region; and when
\* the rerun returns, its map holds, for the source region and each target
\* region of the rerun, the id a run without failure would have returned.
C1_RerunSafety ==
  (IsRerun /\ pc \in {"done", "failed"}) =>
    /\ Cardinality(ObjectsAt(image_name)) <= 1
    /\ Cardinality({t \in import_tasks : t.token = ClientToken(image_name)}) <= 1
    /\ \A r \in AllRegions : Cardinality({i \in images : i.region = r /\ i.name = image_name}) <= 1
    /\ pc = "done" =>
         /\ DOMAIN image_ids = {SourceRegion} \cup (IF args.copy_to_regions THEN TargetSet ELSE {})
         /\ \A r \in DOMAIN image_ids : image_ids[r] = prev.start.ids[r]

\* A run failed in the replication stage, after the image was registered, and
\* its rerun returned the map of the source region and two target regions.
C1_Witness ==
  /\ IsRerun
  /\ pc = "done"
  /\ prev.registered # NoId
  /\ args.copy_to_regions
  /\ Cardinality(DOMAIN image_ids) = 3

\* C2 - Idempotent upload.  Two calls in sequence of upload_to_s3_if_not_exists
\* with the same bucket, key and file, the key holding nothing before the
\* first: once the second has returned, upload_file was called exactly once
\* over the two calls, the second call made no upload, and the key holds the
\* file's content.
C2_IdempotentUpload ==
  (SameCall /\ prev.uploaded /\ ~prev.start.held /\ Returned("upload")) =>
    /\ prev.uploads + calls.upload_file = 1
    /\ calls.upload_file = 0
    /\ \A o \in ObjectsAt(image_name) : o.content = args.info.file

\* C3 - Registration identity.  When register_image_if_not_exists has returned
\* in two runs in sequence for the same image name, it returned the same image
\* id; no two images of the source region ever share a name; and register_image
\* is about to be issued only while no image has the name.
C3_RegistrationIdentity ==
  /\ (run >= 2 /\ prev.registered # NoId /\ Returned("register")
        /\ ImageName(prev.args.info, prev.args.prefix, prev.args.run_id) = image_name)
       => image_id = prev.registered
  /\ \A i, j \in images : (i.region = SourceRegion /\ j.region = SourceRegion /\ i.name = j.name) => i = j
  /\ pc = "register_image" => ~\E i \in images : i.region = SourceRegion /\ i.name = image_name

\* The second of two runs has come back from the registration of a name the
\* first run registered.
C3_Witness ==
  /\ run >= 2
  /\ prev.registered # NoId
  /\ Returned("register")
  /\ ImageName(prev.args.info, prev.args.prefix, prev.args.run_id) = image_name
  /\ calls.register_image = 0

\* The image is the available copy, in region r, of the run's source image.
IsAvailableCopy(r, id) ==
  \E i \in images : i.id = id /\ i.region = r /\ i.token = image_id /\ i.state = "available"

\* C4 - Replication completeness.  Every pair executor.map has yielded names a
\* copy that is available; and once copy_image_to_regions has returned, the
\* map has one entry per target region and one for the source region, the
\* source entry is the registered image of the name, and each target entry is
\* an available copy in that region.
C4_ReplicationCompleteness ==
  /\ \A k \in DOMAIN pairs : IsAvailableCopy(pairs[k][1], pairs[k][2])
  /\ Returned("replicate") =>
       /\ SourceRegion \notin TargetSet
       /\ Cardinality(DOMAIN image_ids) = Cardinality(TargetSet) + 1
       /\ \E i \in images :
            i.id = image_ids[SourceRegion] /\ i.region = SourceRegion /\ i.name = image_name
       /\ \A r \in TargetSet : r \in DOMAIN image_ids /\ IsAvailableCopy(r, image_ids[r])

\* copy_image_to_regions has returned the map of two target regions.
C4_Witness == Returned("replicate") /\ Cardinality(TargetSet) = 2 /\ pc = "done"

\* C5 - Partial failure surfacing.  A run in which the task of some target
\* region raised never returns a map; a run with replication that returns has
\* an entry for every target region.
C5_PartialFailure ==
  /\ (\E r \in TargetSet : fut[r] = "raised") => pc # "done"
  /\ (pc = "done" /\ args.copy_to_regions) => \A r \in TargetSet : r \in DOMAIN image_ids

\* The run failed with the pair of one region already gathered and the task
\* of another region raised.
C5_Witness ==
  /\ pc = "failed"
  /\ Len(pairs) >= 1
  /\ \E r \in TargetSet : fut[r] = "raised"

KnownSystems == {"x86_64-linux", "aarch64-linux"}

\* The image the current run registered or found in the source region.
SourceImage == {i \in images : i.region = SourceRegion /\ i.id = image_id}

\* C6 - Closed architecture mapping.  An image registered for system
\* x86_64-linux has architecture x86_64 and one for aarch64-linux has arm64;
\* in a run whose system is neither, register_image is not called and the
\* registration never returns an image id.
C6_ClosedMapping ==
  /\ \A i \in SourceImage :
       (calls.register_image = 1 /\ args.info.system = "x86_64-linux") => i.arch = "x86_64"
  /\ \A i \in SourceImage :
       (calls.register_image = 1 /\ args.info.system = "aarch64-linux") => i.arch = "arm64"
  /\ (run >= 1 /\ args.info.system \notin KnownSystems) =>
       /\ calls.register_image = 0
       /\ ~Returned("register")
       /\ image_id = NoId

\* The name the claim gives: prefix + label + "-" + system, then "." + runId
\* when the run id is not empty.
NameOfClaim ==
  args.prefix \o args.info.label \o "-" \o args.info.system
    \o (IF args.run_id = "" THEN "" ELSE "." \o args.run_id)

\* C7 - Pipeline without replication.  With copy_to_regions false no copy is
\* requested and no region task exists; the object the run uploaded is stored
\* at the claim's name, the image the run registered has the claim's name, and
\* the map returned has the one entry source region -> that image's id.
C7_NoReplication ==
  (run >= 1 /\ ~args.copy_to_regions) =>
    /\ calls.copy_image = {}
    /\ \A r \in AllRegions : fut[r] = "none"
    /\ Returned("upload") => ObjectsAt(NameOfClaim) # {}
    /\ \A i \in SourceImage : i.name = NameOfClaim
    /\ pc = "done" =>
         /\ DOMAIN image_ids = {SourceRegion}
         /\ \E i \in SourceImage : i.id = image_ids[SourceRegion] /\ i.name = NameOfClaim

\* The end-to-end scenario of the specification: prefix "", run id "42",
\* label nixos, system x86_64-linux, neither replication nor public.
C7_Witness ==
  /\ pc = "done"
  /\ ~args.copy_to_regions
  /\ ~args.public
  /\ calls.upload_file = 1
  /\ calls.register_image = 1
  /\ ObjectsAt("nixos-x86_64-linux.42") # {}
  /\ \E i \in SourceImage : i.name = "nixos-x86_64-linux.42" /\ image_ids[SourceRegion] = i.id

StageOrder ==
  <<"upload", "upload.ret", "import", "import.ret", "register", "register.ret",
    "replicate", "replicate.ret">>

IsPrefix(s, t) == Len(s) <= Len(t) /\ \A k \in DOMAIN s : s[k] = t[k]

\* The stage has been called and has not returned.
InStage(stage) == stages # <<>> /\ stages[Len(stages)] = stage

\* Stages are called in the one order, each after the return of the one
\* before; a call of one stage is issued only after the stages before it have
\* returned; no call of the sequential stages is issued twice in a run.
C8_InOrder ==
  /\ IsPrefix(stages, StageOrder)
  /\ calls.import_snapshot > 0 => Returned("upload")
  /\ calls.describe_images > 0 => Returned("import")
  /\ calls.register_image > 0 => Returned("import")
  /\ calls.describe_regions > 0 => Returned("register")
  /\ (calls.copy_image # {} \/ fut # NoFut) => Returned("register")
  /\ \A k \in {"head_object", "upload_file", "import_snapshot", "describe_images",
               "register_image", "describe_regions"} : calls[k] <= 1

\* A step of a run: the calls of a stage are issued while the run is in that
\* stage; after the failure of the run no call is issued and the provider's
\* state stays as it is; and no step removes an object, a task or an image.
C8_Step ==
  /\ (run' = run /\ calls'.head_object + calls'.upload_file # calls.head_object + calls.upload_file)
       => InStage("upload")
  /\ (run' = run /\ calls'.import_snapshot # calls.import_snapshot) => InStage("import")
  /\ (run' = run /\ calls'.describe_images + calls'.register_image
                      # calls.describe_images + calls.register_image) => InStage("register")
  /\ (run' = run /\ calls'.copy_image # calls.copy_image) => InStage("replicate")
  /\ (run' = run /\ pc = "failed") => (calls' = calls /\ remote' = remote /\ pc' = "failed")
  /\ \A o \in objects : \E n \in objects' : n.bucket = o.bucket /\ n.key = o.key
  /\ \A t \in import_tasks : \E n \in import_tasks' : n.id = t.id /\ n.token = t.token
  /\ \A i \in images : \E n \in images' : n.id = i.id /\ n.name = i.name

\* C8 - Orchestrator stage order.  In every run the stages run in the order
\* upload, snapshot import, registration, replication, each called after the
\* one before has returned; once a stage has failed the run issues no further
\* call, no call is repeated within the run, and nothing an earlier stage
\* created is removed.
C8_StageOrder == []C8_InOrder /\ [][C8_Step]_vars

\* A run failed in the registration stage, after the upload and the import
\* had made their resources, which are still there.
C8_Witness ==
  /\ pc = "failed"
  /\ InStage("register")
  /\ calls.upload_file = 1
  /\ ObjectsAt(image_name) # {}
  /\ import_tasks # {}

\* C9 - Probe miss classification.  upload_file is called only when
\* head_object answered "not found"; when head_object failed with another
\* error the run makes no upload and the upload stage does not return.
C9_ProbeMiss ==
  /\ calls.upload_file > 0 => probe = "not_found"
  /\ probe \in {"client_error", "error"} => (calls.upload_file = 0 /\ ~Returned("upload"))

\* C10 - Configuration errors fail first.  A run whose descriptor names an
\* unknown system uploads nothing, submits no snapshot import and does not
\* return.
C10_ConfigFirst ==
  (run >= 1 /\ args.info.system \notin KnownSystems) =>
    /\ calls.upload_file = 0
    /\ calls.import_snapshot = 0
    /\ pc # "done"

\* ------------------------------------------------------------------ C11
\* C11: when the lookup by name of register_image_if_not_exists returns
\* more than one image, the call aborts: it takes none of them, registers
\* nothing, grants no launch permission and returns no image id.  Images
\* of the run's name appear from outside only before the lookup, so more
\* than one of them after it means the lookup returned more than one.
SameNameImages == ImagesNamed(SourceRegion, image_name)

C11_AmbiguousName ==
  (calls.describe_images = 1 /\ Cardinality(SameNameImages) > 1)
    => /\ pc = "failed"
       /\ image_id = NoId
       /\ calls.register_image = 0
       /\ calls.modify_image = {}
       /\ ~Returned("register")

\* The lookup of a run returned two images and the run has failed.
C11_Witness ==
  /\ calls.describe_images = 1
  /\ Cardinality(SameNameImages) = 2
  /\ pc = "failed"
  /\ args.public

\* ------------------------------------------------------------------ C12
\* C12: import_snapshot returns a snapshot id only when the query by task
\* id returned exactly one task, which holds a snapshot id; with no task or
\* more than one task it fails and returns nothing.  The answer changes
\* only while the run is at the query, so the tasks of the id after the
\* return are the ones that were returned.
TasksOfRun == {t \in import_tasks : t.id = task_id}

C12_ExactlyOneTask ==
  Returned("import")
    => /\ Cardinality(TasksOfRun) = 1
       /\ \A t \in TasksOfRun : t.snapshot # 0 /\ snapshot_id = t.snapshot

\* ------------------------------------------------------------------ C13
\* C13: when register_image_if_not_exists returns with public set, the
\* launch permission for the group "all" has been requested for the
\* returned image in that call, whether the call registered the image or
\* found it; without public the run requests no launch permission.
C13_PublicReapplied ==
  /\ (Returned("register") /\ args.public)
       => /\ image_id \in calls.modify_image
          /\ \A i \in images : i.id = image_id => i.public
  /\ (run > 0 /\ ~args.public) => calls.modify_image = {}

\* A public call that found its image and has returned.
C13_Witness ==
  /\ Returned("register")
  /\ args.public
  /\ calls.register_image = 0
  /\ image_id \in calls.modify_image

\* ------------------------------------------------------------------ C14
\* C14: at every moment of copy_image_to_regions at most max_workers (32)
\* region tasks are in flight, however many target regions there are; the
\* other tasks wait on the queue until a worker is free.
InFlight == {r \in DOMAIN fut : Running(r)}

C14_BoundedFanOut == Cardinality(InFlight) <= max_workers

\* There are more target regions than workers: all workers are busy and a
\* task waits.
C14_Witness ==
  /\ Len(regions) > max_workers
  /\ Cardinality(InFlight) = max_workers
  /\ \E r \in DOMAIN fut : fut[r] = "pending"

\* ------------------------------------------------------------------ C20
\* C20: with every provider call and wait returning, a run that was started
\* ends, by returning or by failing, also with more target regions than
\* workers; and a run that returns has started and finished the task of
\* every target region.
Ended == pc \in {"done", "failed"}

AllFinished == \A r \in TargetSet : fut[r] = "finished"

C20_Terminates ==
  /\ (run = 1) ~> Ended
  /\ [](pc = "done" => AllFinished /\ Len(pairs) = Len(regions))

\* A run over more target regions than workers has returned.
C20_Witness ==
  /\ pc = "done"
  /\ Len(regions) > max_workers
  /\ AllFinished

\* ------------------------------------------------------------------ C15
\* C15: when the run is interrupted or fails during replication, the abort
\* reaches every region task in flight: once the failure has left
\* copy_image_to_regions, no region task runs or calls the provider any
\* more, and no task waits to be started.
C15_NoLeak ==
  pc = "failed" => \A r \in DOMAIN fut : ~Running(r) /\ fut[r] # "pending"

\* ------------------------------------------------------------------ C16
\* C16: the region tasks never write the result map: while they run the
\* map holds the source region alone, each pair gathered is the region of
\* a task with the image id that task got, and the map returned has every
\* target region once, with the id of that region's own task.
C16_SingleCollector ==
  /\ pc \in {"map", "raise"} => image_ids = [r \in {SourceRegion} |-> image_id]
  /\ \A k \in DOMAIN pairs : pairs[k] = <<regions[k], copy_ids[regions[k]]>>
  /\ Returned("replicate") =>
       /\ Len(pairs) = Cardinality(TargetSet)
       /\ \A j, k \in DOMAIN pairs : pairs[j][1] = pairs[k][1] => j = k
       /\ \A r \in TargetSet : image_ids[r] = copy_ids[r]

\* The map of two target regions has been returned, each region with the
\* id of its own copy.
C16_Witness ==
  /\ pc = "done"
  /\ Len(pairs) = 2
  /\ image_ids[regions[1]] = copy_ids[regions[1]]
  /\ image_ids[regions[2]] = copy_ids[regions[2]]
  /\ copy_ids[regions[1]] # copy_ids[regions[2]]

\* ------------------------------------------------------------------ C17
\* C17: a run that completed, followed by a run of the same image name
\* whose local file differs: the second run transfers nothing, its import
\* carries the same client token and makes no new snapshot, no new image
\* is registered, and it returns the image id the first run returned.
SameNameOtherFile ==
  /\ run >= 2
  /\ prev.outcome = "done"
  /\ ImageName(prev.args.info, prev.args.prefix, prev.args.run_id) = image_name
  /\ prev.args.info.file # args.info.file

C17_IdentityByName ==
  SameNameOtherFile =>
    /\ calls.upload_file = 0
    /\ \A o \in ObjectsAt(image_name) : o.content = prev.args.info.file
    /\ Cardinality({t \in import_tasks : t.token = ClientToken(image_name)}) = 1
    /\ \A t \in import_tasks : t.id = task_id => t.token = ClientToken(image_name)
    /\ Cardinality(ImagesNamed(SourceRegion, image_name)) = 1
    /\ Returned("register") => image_id = prev.registered

\* ------------------------------------------------------------------ C18
\* C18: with replication, the regions in which the run requests a copy are
\* target regions of a region list of the provider with the source region
\* taken out, all of them once copy_image_to_regions has returned; no copy
\* is ever requested in the source region; and the source entry of the
\* returned map is the id of the registered image.
ListedSets == {{rs[k] : k \in DOMAIN rs} : rs \in RegionLists}

IsAvailable(id) == \E i \in images : i.id = id /\ i.state = "available"

C19_GrantAfterAvailable ==
  /\ \A id \in calls.modify_image : IsAvailable(id)
  /\ \A i \in images : i.public => i.state = "available"
  /\ Returned("register") => IsAvailable(image_id)
  /\ \A k \in DOMAIN pairs : IsAvailable(pairs[k][2])
  /\ pc = "done" => \A r \in DOMAIN image_ids : IsAvailable(image_ids[r])

\* A public run: the permission was requested for the copy of one region,
\* and the wait for the copy of another region failed with nothing
\* requested for that copy.
C19_Witness ==
  /\ args.public
  /\ \E r \in TargetSet : copy_ids[r] \in calls.modify_image
  /\ \E q \in TargetSet :
        /\ fut[q] = "raised"
        /\ copy_ids[q] # NoId
        /\ ~IsAvailable(copy_ids[q])
        /\ copy_ids[q] \notin calls.modify_image

====
